---------------------------- MODULE Spec2Model ----------------------------
(***************************************************************************)
(* createFastContext: a keyed store (store.current + a Set of subscriber   *)
(* callbacks) created per mounted Provider, and the useStore(key) accessor *)
(* that binds one consumer to one field through useSyncExternalStore.      *)
(*                                                                         *)
(* The store's set() runs a synchronous notification pass                  *)
(* (subscribers.current.forEach).  A pass is modelled step by step with an *)
(* explicit call stack, because a subscriber may call set / subscribe /    *)
(* unsubscribe from inside its notification.  The JavaScript Set is an     *)
(* insertion-ordered list: forEach walks the live list, an entry deleted   *)
(* before its turn is skipped and an entry added during the walk is        *)
(* visited.  The list is kept compact and the positions of the running     *)
(* passes are shifted on delete, which is the same walk.                   *)
(***************************************************************************)
EXTENDS Integers, Sequences, FiniteSets, TLC

\* ------------------------------------------------------------------ bounds
MaxDepth == 2
MaxRenders == 1

\* ------------------------------------------------------------- input sets
Keys == {"first", "count"}
Values == {0, 1}
Scopes == {1, 2}
CoreScopes == {1}
Callbacks == {1, 2}
NoScope == 0
NoCallback == 0

\* AppContext.tsx: createFastContext({first: "", last: "", count: 0})
InitialValues == [k \in Keys |-> 0]

\* the key a consumer passes to useStore (TextInput value="first",
\* FormContainer useAppStore("count"))
BoundKey == [c \in Callbacks |-> IF c = 1 THEN "first" ELSE "count"]

\* every object a caller can pass to set(): a mapping over some of the keys
Partials == UNION {[D -> Values] : D \in SUBSET Keys}

VARIABLES
    initialState,   \* contents of the object given to createFastContext
    mounted,        \* mounted[s]: Provider scope s is mounted
    handleObj,      \* handleObj[s]: identity of the {get,set,subscribe} object
    store,          \* store[s]: the object store.current refers to
    subscribers,    \* subscribers[s]: subscribers.current, in insertion order
    closures,       \* closures[s]: callbacks whose unsubscribe closure a caller holds
    kept,           \* the one unsubscribe closure that is followed, and its calls
    consumer,       \* consumer[c]: the useStore binding owning callback c
    stack,          \* running set() calls, innermost last
    obs,            \* what has happened since the watched set() call began
    thrown          \* the error the last call threw, "" if it returned

vars == <<initialState, mounted, handleObj, store, subscribers, closures,
          kept, consumer, stack, obs, thrown>>

\* ---------------------------------------------------------------- helpers
Range(seq) == {seq[i] : i \in 1..Len(seq)}

IndexOf(seq, x) == CHOOSE i \in 1..Len(seq) : seq[i] = x

RemoveAt(seq, i) == SubSeq(seq, 1, i - 1) \o SubSeq(seq, i + 1, Len(seq))

\* a count kept as none / one / more than one
Bump(n) == IF n = 0 THEN 1 ELSE 2

Inactive == [scope |-> NoScope, seen |-> 0]

\* no unsubscribe closure is followed
NoKept == [scope |-> NoScope, cb |-> NoCallback, calls |-> 0]

\* no set() call is being watched
NoObs == [depth |-> 0, what |-> "", value |-> <<>>, rewritten |-> {},
          atStart |-> <<>>, removed |-> {},
          own |-> [c \in Callbacks |-> 0], total |-> [c \in Callbacks |-> 0]]

\* ------------------------------------------------------------ store core
\* {...initialState, ...value}: the keys the argument lacks fall back to the
\* initial mapping instead of keeping their current value
MergeOntoInitial(cur, value) ==
    [k \in (DOMAIN cur) \cup (DOMAIN value) |->
        IF k \in DOMAIN value THEN value[k] ELSE InitialValues[k]]

\* {...value, ...store.current}: the spreads in the wrong order
MergeCurrentWins(cur, value) ==
    [k \in (DOMAIN cur) \cup (DOMAIN value) |->
        IF k \in DOMAIN cur THEN cur[k] ELSE value[k]]

\* {...store.current, ...value}
Merge(cur, value) ==
    [k \in (DOMAIN cur) \cup (DOMAIN value) |->
        IF k \in DOMAIN value THEN value[k] ELSE cur[k]]

\* the object a reference designates: useRef(initialState) shares the
\* caller's object until the first set() replaces store.current
Deref(ref, init) == IF ref.shared THEN init ELSE ref.fields

\* get = () => store.current
get(s) == Deref(store[s], initialState)

\* Object.assign(store.current, value): the object store.current refers to is
\* written in place, which is the caller's initial mapping until it is replaced
setAssign(ref, init, value) ==
    IF ref.shared
    THEN [current |-> ref, initialState |-> Merge(init, value)]
    ELSE [current |-> [shared |-> FALSE, fields |-> Merge(ref.fields, value)],
          initialState |-> init]

\* store.current = {...store.current, ...value}: a new object; neither the
\* old object nor the initial mapping is written
setReplace(ref, init, value) ==
    [current |-> [shared |-> FALSE, fields |-> Merge(Deref(ref, init), value)],
     initialState |-> init]

\* subscribers.current.add(callback)
SetAdd(subs, c) == IF c \in Range(subs) THEN subs ELSE Append(subs, c)

\* the last entry is dropped whichever callback is given (a pop for a delete)
SetDeleteLast(subs, c) ==
    IF subs = <<>> THEN subs ELSE SubSeq(subs, 1, Len(subs) - 1)

\* subscribers.current.delete(callback)
SetDelete(subs, c) ==
    IF c \in Range(subs) THEN RemoveAt(subs, IndexOf(subs, c)) ELSE subs

\* useSyncExternalStore getServerSnapshot: () => initialState[key]
getServerSnapshot(key) == initialState[key]

\* the two snapshot functions swapped: the live snapshot reads initialState
getSnapshotInitial(s, key) == getServerSnapshot(key)

\* useSyncExternalStore getSnapshot: () => store.get()[key]
getSnapshot(s, key) == get(s)[key]

TypeOK ==
    /\ mounted \in [Scopes -> BOOLEAN]
    /\ \A s \in Scopes : Range(subscribers[s]) \subseteq Callbacks
    /\ \A s \in Scopes : Len(subscribers[s]) = Cardinality(Range(subscribers[s]))
    /\ Len(stack) <= MaxDepth
    /\ thrown \in {"", "Store not found"}

Init ==
    /\ initialState = InitialValues
    /\ mounted = [s \in Scopes |-> FALSE]
    /\ handleObj = [s \in Scopes |-> 0]
    /\ store = [s \in Scopes |-> [shared |-> TRUE, fields |-> InitialValues]]
    /\ subscribers = [s \in Scopes |-> <<>>]
    /\ closures = [s \in Scopes |-> {}]
    /\ kept = NoKept
    /\ consumer = [c \in Callbacks |-> Inactive]
    /\ stack = <<>>
    /\ obs = NoObs
    /\ thrown = ""

Idle == stack = <<>>

\* Provider mounts: useStoreData() runs for the first time; useRef(initialState)
\* makes store.current the caller's object, useRef(new Set()) an empty Set
MountProvider(s) ==
    /\ Idle
    /\ ~mounted[s]
    /\ mounted' = [mounted EXCEPT ![s] = TRUE]
    /\ store' = [store EXCEPT ![s] = [shared |-> TRUE, fields |-> InitialValues]]
    /\ subscribers' = [subscribers EXCEPT ![s] = <<>>]
    /\ handleObj' = [handleObj EXCEPT ![s] = 1]
    /\ thrown' = ""
    /\ UNCHANGED <<initialState, closures, kept, consumer, stack, obs>>

\* Provider re-renders: useRef and useCallback([]) give back the same store,
\* Set, get, set and subscribe; `return {get, set, subscribe}` builds a new
\* object, which becomes the context value
RenderProvider(s) ==
    /\ Idle
    /\ mounted[s]
    /\ handleObj[s] <= MaxRenders
    /\ handleObj' = [handleObj EXCEPT ![s] = handleObj[s] + 1]
    /\ thrown' = ""
    /\ UNCHANGED <<initialState, mounted, store, subscribers, closures,
                   kept, consumer, stack, obs>>

\* ------------------------------------------------- set() and its pass
Top == stack[Len(stack)]

InCallback == stack # <<>> /\ Top.running # NoCallback

\* a call is made by the host between cascades, or by the subscriber being
\* notified, on the store that is notifying it
CanCall(s) == mounted[s] /\ (Idle \/ (InCallback /\ Top.scope = s))

\* the record of one running set() call: the store, the position of its
\* forEach, the callback it is calling and what that callback read
NewFrame(s) ==
    [scope |-> s, idx |-> 1, running |-> NoCallback,
     snapshot |-> 0, prevSeen |-> 0, rendered |-> FALSE]

\* a walk by index over an array that is spliced: the positions are not moved
NoteDeleteNoShift(stk, s, c) == stk

\* the running passes on store s after subscribers.current.delete(c): the
\* entries behind the deleted one move up
NoteDelete(stk, s, c) ==
    IF c \notin Range(subscribers[s]) THEN stk
    ELSE [i \in 1..Len(stk) |->
            IF stk[i].scope = s
            THEN [stk[i] EXCEPT
                    !.idx = IF IndexOf(subscribers[s], c) < @ THEN @ - 1 ELSE @]
            ELSE stk[i]]

\* Any one set() call may be watched from its first statement to its return
\* (watch is chosen freely when the call starts, "" for none; one thing is
\* followed at a time, a call or an unsubscribe closure).  Watched for
\* its "write", obs keeps its argument and the keys written by nested calls
\* since; watched for its "pass", obs keeps the Set as it was when the call
\* started, the callbacks deleted since, and how often each callback has been
\* called since: by the call's own forEach (own) and in all (total).
\* An outermost call may instead be watched for its "last" replacement: obs
\* keeps the Set as it was when the call started, the callbacks deleted
\* since, the keys written by nested calls, the state the latest replacement
\* produced (value) and how often each callback has been called since that
\* replacement (total).
Watches == {"", "write", "pass"}

Watching == obs.depth # 0

WatchedStore(s) == Watching /\ stack[obs.depth].scope = s

WatchStart(s, value, watch) ==
    IF watch = "write"
    THEN [NoObs EXCEPT !.depth = Len(stack) + 1, !.what = watch,
                       !.value = value]
    ELSE IF watch = "pass"
    THEN [NoObs EXCEPT !.depth = Len(stack) + 1, !.what = watch,
                       !.atStart = subscribers[s]]
    ELSE IF watch = "last"
    THEN [NoObs EXCEPT !.depth = Len(stack) + 1, !.what = watch,
                       !.atStart = subscribers[s],
                       !.value = Merge(get(s), value)]
    ELSE IF WatchedStore(s) /\ obs.what = "write"
    THEN [obs EXCEPT !.rewritten = @ \cup DOMAIN value]
    ELSE IF WatchedStore(s) /\ obs.what = "last"
    THEN [obs EXCEPT !.rewritten = @ \cup DOMAIN value,
                     !.value = Merge(get(s), value),
                     !.total = NoObs.total]
    ELSE obs

WatchDelete(s, c) ==
    IF WatchedStore(s) /\ obs.what \in {"pass", "last"}
                       /\ c \in Range(subscribers[s])
    THEN [obs EXCEPT !.removed = @ \cup {c}]
    ELSE obs

WatchInvoke(s, c) ==
    IF WatchedStore(s) /\ obs.what = "pass"
    THEN [obs EXCEPT !.total[c] = Bump(@),
                     !.own[c] = IF obs.depth = Len(stack) THEN Bump(@) ELSE @]
    ELSE IF WatchedStore(s) /\ obs.what = "last"
    THEN [obs EXCEPT !.total[c] = Bump(@)]
    ELSE obs

\* set(value), first statement: store.current = {...store.current, ...value};
\* the forEach that follows runs in ForEachStep / SetReturn
StartSet(s, value, watch) ==
    /\ CanCall(s)
    /\ Len(stack) < MaxDepth
    /\ watch # "" => ~Watching /\ kept = NoKept
    /\ LET heap == setReplace(store[s], initialState, value) IN
        /\ store' = [store EXCEPT ![s] = heap.current]
        /\ initialState' = heap.initialState
        /\ stack' = Append(stack, NewFrame(s))
        /\ obs' = WatchStart(s, value, watch)
    /\ thrown' = ""
    /\ UNCHANGED <<mounted, handleObj, subscribers, closures, kept, consumer>>

Set(s, value) == \E watch \in Watches : StartSet(s, value, watch)

\* useStore's setter: (value) => store.set({[key]: value})
SetValue(s, key, v) == Set(s, [k \in {key} |-> v])

\* [...subscribers.current].forEach: the walk is over a copy of the Set taken
\* when the call started
forEachNextOfCopy(f, subs) ==
    LET copy == IF obs.what = "pass" THEN obs.atStart ELSE subs
    IN  IF f.idx <= Len(copy) THEN copy[f.idx] ELSE NoCallback

\* the entry Set.prototype.forEach visits next, NoCallback when the walk is over
forEachNext(f, subs) == IF f.idx <= Len(subs) THEN subs[f.idx] ELSE NoCallback

\* the host's subscriber (the store-change handler useSyncExternalStore
\* subscribes): take the snapshot and re-evaluate the consumer only if it
\* differs from the value the consumer last rendered
handleStoreChange(b, snapshot) ==
    [rendered |-> snapshot # b.seen, binding |-> [b EXCEPT !.seen = snapshot]]

\* subscribers.current.forEach((callback) => callback()): one callback is
\* called; it reads its snapshot and then runs until CallbackReturn
ForEachStep ==
    /\ stack # <<>>
    /\ Top.running = NoCallback
    /\ forEachNext(Top, subscribers[Top.scope]) # NoCallback
    /\ LET f == Top
           s == f.scope
           c == forEachNext(f, subscribers[s])
           snap == getSnapshot(s, BoundKey[c])
           bound == consumer[c].scope = s
           host == handleStoreChange(consumer[c], snap)
       IN
        /\ stack' = [stack EXCEPT ![Len(stack)] =
                        [@ EXCEPT !.idx = f.idx + 1, !.running = c,
                                  !.snapshot = snap,
                                  !.prevSeen = IF bound THEN consumer[c].seen ELSE 0,
                                  !.rendered = bound /\ host.rendered]]
        /\ consumer' = IF bound THEN [consumer EXCEPT ![c] = host.binding]
                       ELSE consumer
        /\ obs' = WatchInvoke(s, c)
    /\ thrown' = ""
    /\ UNCHANGED <<initialState, mounted, handleObj, store, subscribers,
                   closures, kept>>

\* the callback being notified returns to forEach
CallbackReturn ==
    /\ InCallback
    /\ stack' = [stack EXCEPT ![Len(stack)] =
                    [@ EXCEPT !.running = NoCallback, !.snapshot = 0,
                              !.prevSeen = 0, !.rendered = FALSE]]
    /\ thrown' = ""
    /\ UNCHANGED <<initialState, mounted, handleObj, store, subscribers,
                   closures, kept, consumer, obs>>

\* the forEach is over only once the Set is empty (a loop that drains the Set)
ReturningWhenEmpty ==
    /\ stack # <<>>
    /\ Top.running = NoCallback
    /\ subscribers[Top.scope] = <<>>

\* forEach has walked the whole Set
Returning ==
    /\ stack # <<>>
    /\ Top.running = NoCallback
    /\ forEachNext(Top, subscribers[Top.scope]) = NoCallback

\* set() returns to its caller
SetReturn ==
    /\ Returning
    /\ stack' = SubSeq(stack, 1, Len(stack) - 1)
    /\ obs' = IF obs.depth = Len(stack) THEN NoObs ELSE obs
    /\ thrown' = ""
    /\ UNCHANGED <<initialState, mounted, handleObj, store, subscribers,
                   closures, kept, consumer>>

\* ------------------------------------------------ subscribe / unsubscribe
\* subscribe(callback): subscribers.current.add(callback); the closure
\* () => subscribers.current.delete(callback) is returned.  One returned
\* closure may be followed (keep, chosen freely): kept counts its calls; the
\* other closures are only known to exist.
Subscribe(s, c, keep) ==
    /\ CanCall(s)
    /\ keep => kept = NoKept /\ ~Watching
    /\ subscribers' = [subscribers EXCEPT ![s] = SetAdd(@, c)]
    /\ IF keep
       THEN /\ kept' = [scope |-> s, cb |-> c, calls |-> 0]
            /\ UNCHANGED closures
       ELSE /\ closures' = [closures EXCEPT ![s] = @ \cup {c}]
            /\ UNCHANGED kept
    /\ thrown' = ""
    /\ UNCHANGED <<initialState, mounted, handleObj, store, consumer, stack, obs>>

\* the body of every unsubscribe closure: subscribers.current.delete(callback)
UnsubscribeCall(s, c) ==
    /\ subscribers' = [subscribers EXCEPT ![s] = SetDelete(@, c)]
    /\ stack' = NoteDelete(stack, s, c)
    /\ obs' = WatchDelete(s, c)

\* a closure returned by subscribe(c) on store s is called
Unsubscribe(s, c) ==
    /\ CanCall(s)
    /\ c \in closures[s]
    /\ UnsubscribeCall(s, c)
    /\ thrown' = ""
    /\ UNCHANGED <<initialState, mounted, handleObj, store, closures, kept,
                   consumer>>

\* the followed closure is called, for the first time or again
UnsubscribeKept ==
    /\ kept # NoKept
    /\ CanCall(kept.scope)
    /\ UnsubscribeCall(kept.scope, kept.cb)
    /\ kept' = [kept EXCEPT !.calls = Bump(@)]
    /\ thrown' = ""
    /\ UNCHANGED <<initialState, mounted, handleObj, store, closures, consumer>>

\* ------------------------------------------------------------- useStore
\* createContext(defaultStore): outside every Provider a consumer finds a store
UseContextDefaultStore(s) == IF s # NoScope /\ mounted[s] THEN s ELSE 1

\* useContext(StoreContext) in a consumer rendered under scope s: the
\* Provider's store, or createContext's default null outside every Provider
UseContext(s) == IF s # NoScope /\ mounted[s] THEN s ELSE NoScope

\* useStore(key) in a consumer that mounts under Provider s, or outside every
\* Provider (s = NoScope): throws without a store; otherwise
\* useSyncExternalStore takes the snapshot and subscribes its handler
UseStore(c, s) ==
    /\ Idle
    /\ consumer[c].scope = NoScope
    /\ s \in {NoScope} \cup {x \in Scopes : mounted[x]}
    /\ LET ctx == UseContext(s) IN
        IF ctx = NoScope
        THEN /\ thrown' = "Store not found"
             /\ UNCHANGED <<initialState, mounted, handleObj, store,
                            subscribers, closures, kept, consumer, stack, obs>>
        ELSE /\ subscribers' = [subscribers EXCEPT ![ctx] = SetAdd(@, c)]
             /\ consumer' = [consumer EXCEPT ![c] =
                                [scope |-> ctx,
                                 seen |-> getSnapshot(ctx, BoundKey[c])]]
             /\ thrown' = ""
             /\ UNCHANGED <<initialState, mounted, handleObj, store, closures,
                            kept, stack, obs>>

\* the consumer unmounts: the host calls the unsubscribe closure it was given
Teardown(c) ==
    /\ Idle
    /\ consumer[c].scope # NoScope
    /\ subscribers' = [subscribers EXCEPT ![consumer[c].scope] = SetDelete(@, c)]
    /\ consumer' = [consumer EXCEPT ![c] = Inactive]
    /\ thrown' = ""
    /\ UNCHANGED <<initialState, mounted, handleObj, store, closures, kept,
                   stack, obs>>

\* the setter useStore returned to consumer c is called by the consumer
ConsumerSet(c, v) ==
    /\ Idle
    /\ consumer[c].scope # NoScope
    /\ SetValue(consumer[c].scope, BoundKey[c], v)

\* ------------------------------------------------------- specifications
\* The store core: one store, its callers and subscribers calling set,
\* subscribe and unsubscribe, also from inside a notification.
NextCore ==
    \/ \E s \in CoreScopes : MountProvider(s)
    \/ \E s \in CoreScopes, value \in Partials : Set(s, value)
    \/ ForEachStep
    \/ CallbackReturn
    \/ SetReturn
    \/ \E s \in CoreScopes, c \in Callbacks, keep \in BOOLEAN : Subscribe(s, c, keep)
    \/ \E s \in CoreScopes, c \in Callbacks : Unsubscribe(s, c)
    \/ UnsubscribeKept

Spec == Init /\ [][NextCore]_vars

\* The component tree: Providers and useStore consumers driven by the host,
\* whose subscribers return without calling back into the store.
NextHost ==
    \/ \E s \in Scopes : MountProvider(s)
    \/ \E s \in Scopes : RenderProvider(s)
    \/ \E c \in Callbacks, s \in Scopes \cup {NoScope} : UseStore(c, s)
    \/ \E c \in Callbacks : Teardown(c)
    \/ \E c \in Callbacks, v \in Values : ConsumerSet(c, v)
    \/ ForEachStep
    \/ CallbackReturn
    \/ SetReturn

SpecHost == Init /\ [][NextHost]_vars


\* ------------------------------------------------------------ properties
\* the watched call has finished its forEach and is returning
WatchedReturn(what) == Returning /\ obs.depth = Len(stack) /\ obs.what = what

\* the watched call's forEach is calling a callback
WatchedNotify(what) ==
    /\ Watching
    /\ obs.depth = Len(stack)
    /\ obs.what = what
    /\ Top.running # NoCallback

\* C1: every store always has every key of the initial mapping, and a step
\* changes the value of a key of a store only if it is a set() on that store
\* whose argument has the key; so over any sequence of set calls the keys in
\* none of the arguments keep their value.
C1_KeysKept ==
    /\ [](\A s \in Scopes : DOMAIN InitialValues \subseteq DOMAIN get(s))
    /\ [][\A s \in Scopes, k \in Keys :
            get(s)'[k] # get(s)[k] =>
                \E value \in Partials : k \in DOMAIN value /\ Set(s, value)]_vars

\* set calls have run and returned; "count" was written, "first" never differed
C1_Witness ==
    /\ Idle
    /\ ~store[1].shared
    /\ get(1)["count"] = 1
    /\ get(1)["first"] = InitialValues["first"]

\* C2 as stated: when set(value) returns, get()[k] and the snapshot of a
\* binding on k equal value[k] for every key k of value.
C2_ReadAfterWrite_AsStated ==
    WatchedReturn("write") =>
        \A k \in DOMAIN obs.value :
            /\ get(Top.scope)[k] = obs.value[k]
            /\ getSnapshot(Top.scope, k) = obs.value[k]

\* C2 amended: when set(value) returns, get()[k] and the snapshot of a binding
\* on k equal value[k] for every key k of value that no set() called by a
\* subscriber during the notification has written again.
C2_ReadAfterWrite ==
    WatchedReturn("write") =>
        \A k \in (DOMAIN obs.value) \ obs.rewritten :
            /\ get(Top.scope)[k] = obs.value[k]
            /\ getSnapshot(Top.scope, k) = obs.value[k]

\* a set call returns whose key was not written again, although a subscriber
\* called set (on the other key) during the notification
C2_Witness ==
    /\ WatchedReturn("write")
    /\ obs.rewritten # {}
    /\ \E k \in (DOMAIN obs.value) \ obs.rewritten : obs.value[k] = 1

\* C3 as stated: when set() returns, every callback that was in the Set when
\* the call started has been called exactly once since.
C3_OncePerMerge_AsStated ==
    WatchedReturn("pass") =>
        \A c \in Range(obs.atStart) : obs.total[c] = 1

\* C3 amended: when set() returns, every callback that was in the Set when the
\* call started and has not been deleted since has been called exactly once
\* by the call's own forEach (and so at least once in all).
C3_OncePerMerge ==
    WatchedReturn("pass") =>
        \A c \in Range(obs.atStart) \ obs.removed :
            obs.own[c] = 1 /\ obs.total[c] >= 1

\* a set call returns that started with two subscribers, a subscriber having
\* deleted and added callbacks during the notification
C3_Witness ==
    /\ WatchedReturn("pass")
    /\ Len(obs.atStart) = 2
    /\ obs.removed # {}
    /\ Range(obs.atStart) \ obs.removed # {}

\* C4 as stated: a callback called by the forEach of set(value) that reads
\* get()[key] reads value[key] whenever value has the key.
C4_SeesNewState_AsStated ==
    WatchedNotify("write") =>
        LET key == BoundKey[Top.running] IN
            key \in DOMAIN obs.value => Top.snapshot = obs.value[key]

\* C4 amended: a callback called by the forEach of set(value) that reads
\* get()[key] reads value[key] whenever value has the key and no set() called
\* by a subscriber during the notification has written the key again.
C4_SeesNewState ==
    WatchedNotify("write") =>
        LET key == BoundKey[Top.running] IN
            key \in (DOMAIN obs.value) \ obs.rewritten =>
                Top.snapshot = obs.value[key]

\* a subscriber of the written key is being notified and has read the new value
C4_Witness ==
    /\ WatchedNotify("write")
    /\ BoundKey[Top.running] \in DOMAIN obs.value
    /\ obs.value[BoundKey[Top.running]] = 1
    /\ Top.snapshot = 1
    /\ obs.rewritten = {}

\* the Set without c, the other entries in their order
Without(subs, c) == SelectSeq(subs, LAMBDA x : x # c)

\* C5: calling the closure returned by subscribe(cb) deletes cb from the Set
\* of its store and leaves every other entry of every Set in place; while cb
\* is not in the Set no forEach calls it; and every set() call still calls
\* each callback that is in the Set when it starts and stays in it.
C5_UnsubscribeRemovesOnlyIt ==
    /\ [][UnsubscribeKept =>
            /\ subscribers'[kept.scope] = Without(subscribers[kept.scope], kept.cb)
            /\ \A s \in Scopes \ {kept.scope} : subscribers'[s] = subscribers[s]]_vars
    /\ [][(/\ ForEachStep
           /\ kept.calls >= 1
           /\ Top.scope = kept.scope
           /\ kept.cb \notin Range(subscribers[kept.scope]))
            => Top'.running # kept.cb]_vars
    /\ [](WatchedReturn("pass") =>
            \A c \in Range(obs.atStart) \ obs.removed : obs.total[c] >= 1)

\* the followed closure has been called once, its callback is gone, and a
\* set() call is notifying the subscriber that is left
C5_Witness ==
    /\ kept.calls = 1
    /\ kept.cb \notin Range(subscribers[kept.scope])
    /\ stack # <<>>
    /\ Top.scope = kept.scope
    /\ Top.running \notin {NoCallback, kept.cb}

\* C6 as stated: calling an unsubscribe closure that has been called before
\* leaves every Set as it was and throws nothing.
C6_SecondCallNoOp ==
    [][(UnsubscribeKept /\ kept.calls >= 1) =>
            (subscribers' = subscribers /\ thrown' = "")]_vars

\* C7: a callback deleted from the Set since the followed set() call started
\* (by a subscriber, during the notification) is not called by any forEach,
\* of that call or of a call nested in it, while it is out of the Set.
C7_RemovedNotInvoked ==
    [][ForEachStep =>
        ~(/\ obs.what = "pass"
          /\ Top'.running \in obs.removed
          /\ Top'.running \notin Range(subscribers[Top.scope]))]_vars

\* a set() call returns: a callback that was in the Set when it started was
\* deleted by a subscriber before its turn and has not been called
C7_Witness ==
    /\ WatchedReturn("pass")
    /\ \E c \in Range(obs.atStart) \cap obs.removed :
            obs.total[c] = 0 /\ c \notin Range(subscribers[Top.scope])

\* the callback being called belongs to a consumer bound to the notifying store
BoundNotify ==
    /\ stack # <<>>
    /\ Top.running # NoCallback
    /\ consumer[Top.running].scope = Top.scope

\* C8: every set() call calls every subscriber whatever keys it wrote; the
\* consumer bound to key k is re-evaluated exactly when get()[k] differs from
\* the value it last saw; and when the set() argument lacks k the consumer is
\* notified, reads an unchanged value and is not re-evaluated.
C8_OnlyChangedFieldRerenders ==
    /\ WatchedReturn("pass") => \A c \in Range(obs.atStart) : obs.own[c] = 1
    /\ BoundNotify =>
        /\ Top.snapshot = get(Top.scope)[BoundKey[Top.running]]
        /\ Top.rendered <=> (Top.snapshot # Top.prevSeen)
    /\ (BoundNotify /\ WatchedNotify("write")
            /\ BoundKey[Top.running] \notin DOMAIN obs.value) =>
        (Top.snapshot = Top.prevSeen /\ ~Top.rendered)

\* a consumer whose field holds a value written earlier is notified by a
\* set() that writes only the other key, and is not re-evaluated
C8_Witness ==
    /\ BoundNotify
    /\ WatchedNotify("write")
    /\ DOMAIN obs.value = Keys \ {BoundKey[Top.running]}
    /\ \E j \in DOMAIN obs.value : obs.value[j] = 1
    /\ Top.prevSeen = 1
    /\ ~Top.rendered

\* C9: useStore outside every Provider throws 'Store not found' and does
\* nothing else: no Set, store, consumer or running call changes; and no step
\* that throws changes anything.
C9_NoStoreThrows ==
    /\ [][\A c \in Callbacks :
            UseStore(c, NoScope) =>
                /\ thrown' = "Store not found"
                /\ UNCHANGED <<initialState, mounted, handleObj, store,
                               subscribers, closures, kept, consumer, stack,
                               obs>>]_vars
    /\ [][thrown' = "Store not found" =>
            UNCHANGED <<initialState, mounted, handleObj, store, subscribers,
                        closures, kept, consumer, stack, obs>>]_vars

\* useStore has thrown although a Provider with a subscribed consumer is mounted
C9_Witness ==
    /\ thrown = "Store not found"
    /\ \E s \in Scopes : mounted[s] /\ subscribers[s] # <<>>
    /\ \E c \in Callbacks : consumer[c] = Inactive

\* C10, first part: a mounted Provider keeps the same store object (the
\* context value) across re-renders.
C10_HandleStable ==
    [][\A s \in Scopes :
        (mounted[s] /\ mounted'[s]) => handleObj'[s] = handleObj[s]]_vars

\* C10, second part: a set() on one store changes neither the state nor the
\* Set of another store; a forEach calls only callbacks of consumers bound to
\* its own store; the initial mapping never changes, so a Provider mounts with
\* the initial values and the fallback snapshot is the initial value.
C10_Isolation ==
    /\ [][\A s \in Scopes, value \in Partials :
            Set(s, value) =>
                \A t \in Scopes \ {s} :
                    get(t)' = get(t) /\ subscribers'[t] = subscribers[t]]_vars
    /\ [][ForEachStep => consumer[Top'.running].scope = Top.scope]_vars
    /\ [][\A s \in Scopes : MountProvider(s) => get(s)' = InitialValues]_vars
    /\ [](initialState = InitialValues)
    /\ [](\A k \in Keys : getServerSnapshot(k) = InitialValues[k])

\* C10 as stated: both parts.
C10_ScopesIsolated == C10_HandleStable /\ C10_Isolation

\* ---------------------------------------------------------- termination
\* The store core as a single thread runs it: a forEach that can go on does,
\* a set() whose forEach is over returns, and a callback that makes no further
\* call returns.  What a subscriber calls, and how often, is left open.
NextLive ==
    \/ \E s \in CoreScopes : MountProvider(s)
    \/ \E s \in CoreScopes, value \in Partials : StartSet(s, value, "")
    \/ ForEachStep
    \/ CallbackReturn
    \/ SetReturn
    \/ \E s \in CoreScopes, c \in Callbacks : Subscribe(s, c, FALSE)
    \/ \E s \in CoreScopes, c \in Callbacks : Unsubscribe(s, c)

SpecLive ==
    /\ Init
    /\ [][NextLive]_vars
    /\ WF_vars(ForEachStep)
    /\ WF_vars(CallbackReturn)
    /\ WF_vars(SetReturn)

\* the subscriber being notified calls set, subscribe or an unsubscribe closure
ReentrantCall ==
    /\ InCallback
    /\ \E s \in CoreScopes :
        \/ \E value \in Partials : StartSet(s, value, "")
        \/ \E c \in Callbacks : Subscribe(s, c, FALSE) \/ Unsubscribe(s, c)

\* every set() call returns: the call at depth d of the stack is popped
EverySetReturns ==
    \A d \in 1..MaxDepth : (Len(stack) >= d) ~> (Len(stack) < d)

\* subscribe never waits: whenever a caller can call it, it runs
SubscribeRuns ==
    \A s \in CoreScopes, c \in Callbacks :
        CanCall(s) => ENABLED Subscribe(s, c, FALSE)

\* C11 as stated: subscribe runs whenever it is called, and every set() call
\* returns, whatever the subscribers call from inside their notification.
C11_RunsToCompletion_AsStated == []SubscribeRuns /\ EverySetReturns

\* C11 amended: subscribe runs whenever it is called, and every set() call
\* returns unless the subscribers keep calling set, subscribe or unsubscribe
\* from inside their notifications without end.
C11_RunsToCompletion ==
    /\ []SubscribeRuns
    /\ ([]<><<ReentrantCall>>_vars) \/ EverySetReturns

\* a set() called by a subscriber during its notification has walked a Set
\* of two callbacks and is returning to that subscriber
C11_Witness ==
    /\ Returning
    /\ Len(stack) >= 2
    /\ Len(subscribers[Top.scope]) = 2
    /\ stack[1].running # NoCallback

\* ------------------------------------------------------------ frame effects
\* the callbacks the running set() calls are calling, outermost first
Running(stk) == [i \in 1..Len(stk) |-> stk[i].running]

\* C12: the state of a store changes only in a set() on that store; subscribe
\* and the unsubscribe closures leave every state unchanged and call no
\* callback; the snapshot read for a callback leaves every state unchanged;
\* set() itself (its replacement, its forEach steps and its return) leaves
\* every Set unchanged and never writes the initial mapping, so a Set changes
\* only in a subscribe or unsubscribe call.
C12_FrameEffects ==
    /\ [][\A s \in Scopes :
            get(s)' # get(s) => \E value \in Partials : Set(s, value)]_vars
    /\ [][(\/ \E s \in Scopes, c \in Callbacks, keep \in BOOLEAN :
                  Subscribe(s, c, keep)
           \/ \E s \in Scopes, c \in Callbacks : Unsubscribe(s, c)
           \/ UnsubscribeKept)
            => /\ store' = store
               /\ initialState' = initialState
               /\ Running(stack') = Running(stack)]_vars
    /\ [][ForEachStep =>
            /\ store' = store
            /\ initialState' = initialState
            /\ \A s \in Scopes : get(s)' = get(s)]_vars
    /\ [][(\E s \in Scopes, value \in Partials : Set(s, value)) =>
            /\ subscribers' = subscribers
            /\ initialState' = initialState
            /\ Running(stack') = Append(Running(stack), NoCallback)]_vars
    /\ [][(ForEachStep \/ CallbackReturn \/ SetReturn) =>
            subscribers' = subscribers]_vars
    /\ [][subscribers' # subscribers =>
            \/ \E s \in Scopes, c \in Callbacks, keep \in BOOLEAN :
                  Subscribe(s, c, keep)
            \/ \E s \in Scopes, c \in Callbacks : Unsubscribe(s, c)
            \/ UnsubscribeKept]_vars

\* the state has been changed by set() calls, callbacks have been subscribed
\* and one unsubscribed since, and a subscriber is being notified
C12_Witness ==
    /\ get(1) # InitialValues
    /\ kept.calls = 1
    /\ closures[1] # {}
    /\ subscribers[1] # <<>>
    /\ InCallback

\* --------------------------------------------------- bindings and the Set
\* the consumers whose useStore binding is active on store s
ActiveOn(s) == {c \in Callbacks : consumer[c].scope = s}

\* C13: the Set of every store holds exactly the callbacks of the consumers
\* whose binding is active on it, each once: an active binding has its
\* callback in its store's Set and in no other, a binding that is torn down
\* (or never activated) has none, the size of the Set is the number of active
\* bindings, and the Set is empty when no binding is active.
C13_OneCallbackPerBinding ==
    \A s \in Scopes :
        /\ Range(subscribers[s]) = ActiveOn(s)
        /\ Len(subscribers[s]) = Cardinality(ActiveOn(s))
        /\ \A i, j \in 1..Len(subscribers[s]) :
                subscribers[s][i] = subscribers[s][j] => i = j
        /\ ActiveOn(s) = {} => subscribers[s] = <<>>

\* consumer 1 wrote its field on a store and has been torn down since, while
\* consumer 2 is still bound to that store
C13_Witness ==
    \E s \in Scopes :
        /\ get(s)[BoundKey[1]] = 1
        /\ consumer[1] = Inactive
        /\ consumer[2].scope = s
        /\ subscribers[s] = <<2>>

\* ------------------------------------------------------- reentrant set()
\* The store core with every outermost set() call watched for its last
\* replacement; the calls subscribers make from inside a notification are
\* not watched themselves.
NextReentry ==
    \/ \E s \in CoreScopes : MountProvider(s)
    \/ \E s \in CoreScopes, value \in Partials :
            StartSet(s, value, IF Idle THEN "last" ELSE "")
    \/ ForEachStep
    \/ CallbackReturn
    \/ SetReturn
    \/ \E s \in CoreScopes, c \in Callbacks : Subscribe(s, c, FALSE)
    \/ \E s \in CoreScopes, c \in Callbacks : Unsubscribe(s, c)

SpecReentry == Init /\ [][NextReentry]_vars

\* C14: when an outermost set() call returns, whatever set() calls the
\* subscribers made during its notification, the state is the one the latest
\* replacement produced, and every callback that was in the Set when the call
\* started and has not been deleted since has been called at least once since
\* that latest replacement.
C14_ReentrantFinalState ==
    (WatchedReturn("last") /\ Len(stack) = 1) =>
        /\ get(Top.scope) = obs.value
        /\ \A c \in Range(obs.atStart) \ obs.removed : obs.total[c] >= 1

\* an outermost set() call returns after a subscriber called set() during the
\* notification and changed a key the outer call had written; both callbacks
\* stayed in the Set
C14_Witness ==
    /\ WatchedReturn("last")
    /\ Len(stack) = 1
    /\ Len(obs.atStart) = 2
    /\ obs.removed = {}
    /\ obs.rewritten # {}
    /\ \E k \in obs.rewritten : get(Top.scope)[k] = 1

\* ------------------------------------------- subscribe during a forEach
\* the callbacks that were not in the Set when the watched set() call started
\* and have been added to it since (a subscribe while a set() call runs is
\* made by a subscriber being notified): they are in the Set or were deleted
AddedSinceStart(s) ==
    (Range(subscribers[s]) \cup obs.removed) \ Range(obs.atStart)

\* C15 as stated: when set() returns, every callback added to the Set during
\* its forEach has been called by that forEach.
C15_AddedIsInvoked_AsStated ==
    WatchedReturn("pass") =>
        \A c \in AddedSinceStart(Top.scope) : obs.own[c] >= 1

\* C15 amended: when set() returns, every callback added to the Set during
\* its forEach and still in it has been called by that forEach, exactly once
\* if it was never deleted in between; a callback added and deleted again
\* before its turn is not called.
C15_AddedIsInvoked ==
    WatchedReturn("pass") =>
        \A c \in AddedSinceStart(Top.scope) \cap Range(subscribers[Top.scope]) :
            /\ obs.own[c] >= 1
            /\ c \notin obs.removed => obs.own[c] = 1

\* a set() call that started with one subscriber returns; a callback was
\* subscribed during the notification, stayed, and was called by the forEach
C15_Witness ==
    /\ WatchedReturn("pass")
    /\ Len(obs.atStart) = 1
    /\ \E c \in AddedSinceStart(Top.scope) \ obs.removed : obs.own[c] = 1

=============================================================================
